---- MODULE Spec2Model ----
(***************************************************************************)
(* The Haswell pipeline built by CreateHaswellSimulator                    *)
(* (llvm_sim/x86/haswell.cc): the buffers, their capacities, the           *)
(* components, their configuration and their wiring are those of           *)
(* haswell.cc.  The components' step functions and the Simulator driver    *)
(* live in llvm_sim/components and llvm_sim/framework; they are modelled   *)
(* from sections 4 and 5 of the specification.                             *)
(***************************************************************************)
EXTENDS Integers, Sequences, FiniteSets, TLC

VARIABLES
    stream,        \* the instruction stream: a sequence of indices into InstructionTable
    nextInstr,     \* Fetcher: index of the next instruction to fetch
    buf,           \* the FIFO and link buffers, by name
    ports,         \* the dispatch ports, by port number: uops waiting for an execution unit
    rob,           \* ReorderBuffer: the entries, in allocation order
    depsAvailable, \* ExecDepsTracker ("Outputs Available"): outputs marked available
    inflight,      \* SimplifiedExecutionUnits, by port number: uops being executed
    lastWriter,    \* RegisterRenamer: the uop that produces the current value of the register
    pool,          \* RegisterRenamer: renaming resources left
    retired,       \* instruction sink: the retired instructions with their cycle, in report order
    unsupported,   \* the instructions reported unsupported, in report order
    cycle,         \* Simulator: the clock
    pc,            \* Simulator: index in Components of the next component to step
    done,          \* Simulator: the run has stopped
    stepped,       \* the components stepped in the current cycle, in order, each with the
                   \* number of items it popped from its sources and pushed onto its sinks
    hist,          \* per uop, the cycle of each event of its life (0: not yet)
    rejected       \* the buffers on which a component found a push refused

\* CreateHaswellSimulator, the construction of the ports (haswell.cc)
VARIABLES
    schedModel,    \* Context.SchedModel: the processor resource kinds
    debugNames,    \* the build defines !NDEBUG or LLVM_ENABLE_DUMP
    ProcResIdx,    \* the index of the port creation loop
    Ports,         \* the dispatch ports created, each with its resource and its units
    PortSinks,     \* for each port created, the pointer (index in Ports) handed to the ROB
    PortNames,     \* for each port created, its name
    unitPorts,     \* for each execution unit added, the port it reads
    addedPorts,    \* the ports registered with AddBuffer, each with its name
    routed,        \* the (resource, port) pairs of the uops dispatched so far
    wpc            \* where the construction is: "ports", "units", "buffers", "built"

pipelineVars == <<stream, nextInstr, buf, ports, rob, depsAvailable, inflight, lastWriter,
                  pool, retired, unsupported, cycle, pc, done, stepped, hist, rejected>>

wiringVars == <<schedModel, debugNames, ProcResIdx, Ports, PortSinks, PortNames,
                unitPorts, addedPorts, routed, wpc>>

\* compute_itineraries: the itinerary tool (compute_itineraries.cc)
VARIABLES
    FLAGS_exegesis_only_llvm_mnemonics,   \* the flag, a string (sequence of characters)
    FLAGS_exegesis_output_itineraries,    \* the flag, a string
    instruction_set,   \* Main's copy of the instructions, each with its llvm_mnemonic
    itineraries,       \* Main's copy of the itineraries, each with its llvm_mnemonic
    loaded,            \* the microarchitecture data as loaded
    computeArgs,       \* what ComputeItineraries was called with, <<>> before the call
    status,            \* the status ComputeItineraries returned
    events,            \* the calls made so far, in order
    files,             \* the files written: the paths of the file system that hold a proto
    tpc                \* where the tool is

toolVars == <<FLAGS_exegesis_only_llvm_mnemonics, FLAGS_exegesis_output_itineraries,
              instruction_set, itineraries, loaded, computeArgs, status, events, files, tpc>>

vars == <<pipelineVars, wiringVars, toolVars>>

-----------------------------------------------------------------------------
(* Bounds of the model *)

\* Every stream of exactly ShortLen instructions over InstructionTable is an input.
ShortLen == 3
\* The long streams (one instruction form repeated) have LongLen instructions.
LongLen == 100
\* The clock stops after CyclesPerInstruction cycles for each instruction of the
\* stream and CycleSlack more.
CyclesPerInstruction == 16
CycleSlack == 12
\* The port creation is checked for every target description of up to
\* MaxResourceKinds processor resource kinds (the invalid resource 0 included).
MaxResourceKinds == 4
\* The itinerary tool is checked for every value of the mnemonics flag of up to
\* MaxFlagLen characters and every data set of up to MaxProtos instructions and
\* MaxProtos itineraries.
MaxFlagLen == 3
MaxProtos == 2

-----------------------------------------------------------------------------
(* haswell.cc: capacities and configuration *)

\* std::numeric_limits<size_t>::max(), saturated to the largest 32-bit integer
kInfiniteCapacity == 2147483647

InstructionDecodeQueueCapacity == 64
\* A variant: the pre-decode queue created with the capacity of the decode queue.
InstructionQueueCapacity_AsIDQ == InstructionDecodeQueueCapacity
InstructionQueueCapacity == 20
FetchedInstructionsLinkCapacity == kInfiniteCapacity
RenamerToROBLinkCapacity == kInfiniteCapacity
\* A variant of the link creation: the ready-to-retire link without a bound.
UopsToRetireLinkCapacity_Infinite == kInfiniteCapacity
UopsToRetireLinkCapacity == 3
RetiredUopsLinkCapacity == kInfiniteCapacity
\* A variant of the link creation: the writeback link as wide as the retirement link.
ExecutedWritebackLinkCapacity_AsRetireLink == UopsToRetireLinkCapacity
ExecutedWritebackLinkCapacity == kInfiniteCapacity

FetcherConfig == 16
InstructionParserConfig == 4
InstructionDecoderConfig == 5
RenamerUopsPerCycle == 3
NumROBEntries == 192
RenamerNumPhysicalRegisters == 1000000

BufferNames ==
    {"FetchedInstructionsLink", "InstructionQueue", "InstructionDecodeQueue",
     "RenamerToROBLink", "UopsToRetireLink", "RetiredUopsLink", "ExecutedWritebackLink"}

Capacity(b) ==
    CASE b = "FetchedInstructionsLink" -> FetchedInstructionsLinkCapacity
      [] b = "InstructionQueue"        -> InstructionQueueCapacity
      [] b = "InstructionDecodeQueue"  -> InstructionDecodeQueueCapacity
      [] b = "RenamerToROBLink"        -> RenamerToROBLinkCapacity
      [] b = "UopsToRetireLink"        -> UopsToRetireLinkCapacity
      [] b = "RetiredUopsLink"         -> RetiredUopsLinkCapacity
      [] b = "ExecutedWritebackLink"   -> ExecutedWritebackLinkCapacity

(* haswell.cc: the wiring of the components to the buffers *)
FetcherSink == "FetchedInstructionsLink"
ParserSource == "FetchedInstructionsLink"
ParserSink == "InstructionQueue"
\* A variant of the wiring: the InstructionDecoder reads the fetch link.
DecoderSource_FetchLink == "FetchedInstructionsLink"
DecoderSource == "InstructionQueue"
DecoderSink == "InstructionDecodeQueue"
RenamerSource == "InstructionDecodeQueue"
RenamerSink == "RenamerToROBLink"
ROBUopSource == "RenamerToROBLink"
ROBWritebackSource == "ExecutedWritebackLink"
\* A variant of the wiring: the ReorderBuffer reads the ready-to-retire link
\* as the Retirer's notifications.
ROBRetiredSource_RetireLink == "UopsToRetireLink"
ROBRetiredSource == "RetiredUopsLink"
\* A variant of the wiring: the ReorderBuffer is handed the two retirement
\* links in the other order.
ROBRetirementSink_Swapped == "RetiredUopsLink"
ROBRetirementSink == "UopsToRetireLink"
\* A variant of the wiring: the execution units push onto the ready-to-retire link.
ExecutionUnitSink_RetireLink == "UopsToRetireLink"
\* A variant of the wiring: the execution units push onto the retired-uops link.
ExecutionUnitSink_RetiredLink == "RetiredUopsLink"
ExecutionUnitSink == "ExecutedWritebackLink"
\* A variant of the wiring: the Retirer reads the executed-writeback link.
RetirerSource_Writeback == "ExecutedWritebackLink"
RetirerSource == "UopsToRetireLink"
RetirerSink == "RetiredUopsLink"

-----------------------------------------------------------------------------
(* The target description: Context.SchedModel and the instruction forms *)

\* Context.SchedModel: the processor resource kinds.  Index 0 is the invalid
\* resource; a resource with sub-units is a group.
SchedModel ==
    [NumProcResourceKinds |-> 4,
     ProcResource |->
        (0 :> [Name |-> "InvalidUnit", NumUnits |-> 0, SubUnits |-> <<>>]) @@
        (1 :> [Name |-> "P0",    NumUnits |-> 1, SubUnits |-> <<>>]) @@
        (2 :> [Name |-> "P23",   NumUnits |-> 2, SubUnits |-> <<>>]) @@
        (3 :> [Name |-> "P0P23", NumUnits |-> 2, SubUnits |-> <<1, 2>>])]

\* The instruction forms of the target description: the decomposition of an
\* instruction into uops, each with the resource it executes on, its latency,
\* and whether it reads the register written by the previous uop in program
\* order.  A form without uops has no known decomposition (unsupported).
InstructionTable ==
    << [uops |-> << [res |-> 1, lat |-> 1, reads |-> FALSE] >>],
       [uops |-> << [res |-> 1, lat |-> 1, reads |-> TRUE] >>],
       [uops |-> << [res |-> 1, lat |-> 3, reads |-> FALSE] >>],
       [uops |-> << [res |-> 2, lat |-> 2, reads |-> FALSE] >>],
       [uops |-> << [res |-> 2, lat |-> 2, reads |-> TRUE],
                    [res |-> 1, lat |-> 1, reads |-> TRUE],
                    [res |-> 3, lat |-> 1, reads |-> TRUE],
                    [res |-> 2, lat |-> 1, reads |-> TRUE] >>],
       [uops |-> << [res |-> 3, lat |-> 1, reads |-> FALSE] >>],
       [uops |-> << >>],
       [uops |-> << [res |-> 2, lat |-> 2, reads |-> FALSE],
                    [res |-> 2, lat |-> 2, reads |-> FALSE],
                    [res |-> 1, lat |-> 2, reads |-> FALSE] >>] >>

\* The instruction forms repeated by the long streams: four-uop instructions
\* whose uops form one chain of dependent uops.
LongForms == {5}

MaxCycles(s) == CyclesPerInstruction * Len(s) + CycleSlack

Streams ==
    [1..ShortLen -> 1..Len(InstructionTable)]
      \cup {[i \in 1..LongLen |-> f] : f \in LongForms}

-----------------------------------------------------------------------------
(* Helpers *)

Min(a, b) == IF a <= b THEN a ELSE b

Range(s) == {s[i] : i \in 1..Len(s)}

\* The uops of instruction i of the stream s, in order.  A uop is <<i, k>>.
UopsOf(s, i) == [k \in 1..Len(InstructionTable[s[i]].uops) |-> <<i, k>>]

AllUops(s) == UNION {Range(UopsOf(s, i)) : i \in 1..Len(s)}

UopDesc(s, u) == InstructionTable[s[u[1]]].uops[u[2]]

\* Program order on uops
Older(u, v) == u[1] < v[1] \/ (u[1] = v[1] /\ u[2] < v[2])

Room(bufs, b) == Capacity(b) - Len(bufs[b])

Drop(s, n) == SubSeq(s, n + 1, Len(s))
Take(s, n) == SubSeq(s, 1, n)

-----------------------------------------------------------------------------
(* haswell.cc: the dispatch ports, one per resource without sub-units *)

\* A variant of the port creation loop that starts at resource index 2.
PortResIdx_FromTwo ==
    SelectSeq([i \in 1..(SchedModel.NumProcResourceKinds - 2) |-> i + 1],
              LAMBDA r : SchedModel.ProcResource[r].SubUnits = <<>>)

PortResIdx ==
    SelectSeq([i \in 1..(SchedModel.NumProcResourceKinds - 1) |-> i],
              LAMBDA r : SchedModel.ProcResource[r].SubUnits = <<>>)

NumPorts == Len(PortResIdx)

\* A variant of the port creation: every port is given twice the units of its resource.
PortCapacity_Doubled(p) == 2 * SchedModel.ProcResource[PortResIdx[p]].NumUnits
PortCapacity(p) == SchedModel.ProcResource[PortResIdx[p]].NumUnits

\* A variant of the AddComponent sequence: the Retirer added before the execution units.
Components_RetirerBeforeUnits ==
    << [kind |-> "Fetcher", port |-> 0],
       [kind |-> "InstructionParser", port |-> 0],
       [kind |-> "InstructionDecoder", port |-> 0],
       [kind |-> "RegisterRenamer", port |-> 0],
       [kind |-> "ReorderBuffer", port |-> 0],
       [kind |-> "Retirer", port |-> 0] >>
    \o [p \in 1..NumPorts |-> [kind |-> "ExecutionUnit", port |-> p]]

\* A variant of the AddComponent sequence: the execution units attached to the
\* ports in reverse.
Components_UnitsReversed ==
    << [kind |-> "Fetcher", port |-> 0],
       [kind |-> "InstructionParser", port |-> 0],
       [kind |-> "InstructionDecoder", port |-> 0],
       [kind |-> "RegisterRenamer", port |-> 0],
       [kind |-> "ReorderBuffer", port |-> 0] >>
    \o [p \in 1..NumPorts |-> [kind |-> "ExecutionUnit", port |-> NumPorts + 1 - p]]
    \o << [kind |-> "Retirer", port |-> 0] >>

\* haswell.cc: the components, in the order of the AddComponent calls
Components ==
    << [kind |-> "Fetcher", port |-> 0],
       [kind |-> "InstructionParser", port |-> 0],
       [kind |-> "InstructionDecoder", port |-> 0],
       [kind |-> "RegisterRenamer", port |-> 0],
       [kind |-> "ReorderBuffer", port |-> 0] >>
    \o [p \in 1..NumPorts |-> [kind |-> "ExecutionUnit", port |-> p]]
    \o << [kind |-> "Retirer", port |-> 0] >>

NoUop == <<0, 0>>
NoHist == [ready |-> 0, disp |-> 0, exec |-> 0, wb |-> 0, done |-> 0, ret |-> 0]

-----------------------------------------------------------------------------
(* compute_itineraries: main and Main *)

\* Strings are sequences of characters.
FlagChars == {"A", ",", " "}
Whitespace == {" "}
Strings(n) == UNION {[1..k -> FlagChars] : k \in 0..n}

\* The llvm mnemonics of the data: none, and two names.
DataMnemonics == {<<>>, <<"A">>, <<"A", "A">>}

\* The instructions (or the itineraries) of a data set: each keeps its place
\* in the data as its identity.
ProtoLists ==
    UNION {{[i \in 1..k |-> [id |-> i, llvm_mnemonic |-> f[i]]] : f \in [1..k -> DataMnemonics]} :
             k \in 0..MaxProtos}

OutputPaths == {<<>>, <<"A">>}

Statuses == {"OK", "INTERNAL"}

\* absl::StrSplit(text, ','): the pieces between the commas, in order; the
\* empty string gives one empty piece.
RECURSIVE StrSplit(_)
StrSplit(text) ==
    IF \A i \in DOMAIN text : text[i] # ","
    THEN <<text>>
    ELSE LET c == CHOOSE i \in DOMAIN text :
                      text[i] = "," /\ \A j \in 1..(i - 1) : text[j] # "," IN
         <<SubSeq(text, 1, c - 1)>> \o StrSplit(SubSeq(text, c + 1, Len(text)))

\* absl::SkipWhitespace: a piece is kept unless it is empty or all whitespace;
\* a kept piece is not trimmed.
SkipWhitespace(piece) == \E i \in DOMAIN piece : piece[i] \notin Whitespace

\* A variant that keeps every piece, as absl::AllowEmpty does.
SplitPredicate_AllowEmpty(piece) == TRUE
\* The predicate handed to StrSplit.
SplitPredicate(piece) == SkipWhitespace(piece)

\* const absl::flat_hash_set<std::string> mnemonics = absl::StrSplit(flag, ',', SkipWhitespace())
Mnemonics(flag) ==
    {StrSplit(flag)[i] : i \in {j \in DOMAIN StrSplit(flag) : SplitPredicate(StrSplit(flag)[j])}}

\* The lambdas handed to RemoveIf: !mnemonics.contains(proto->llvm_mnemonic()).
Removed(mnemonics, proto) == proto.llvm_mnemonic \notin mnemonics

\* RemoveIf(field, pred): the elements for which pred is false, in their order.
RemoveIf(field, mnemonics) == SelectSeq(field, LAMBDA proto : ~Removed(mnemonics, proto))

\* A variant of main without the CHECK.
OutputChecked_Unchecked(path) == TRUE
\* CHECK(!FLAGS_exegesis_output_itineraries.empty())
OutputChecked(path) == path # <<>>

NoData == [instruction_set |-> <<>>, itineraries |-> <<>>]

\* The tool is not run.
ToolIdle ==
    /\ FLAGS_exegesis_only_llvm_mnemonics = <<>>
    /\ FLAGS_exegesis_output_itineraries = <<>>
    /\ instruction_set = <<>>
    /\ itineraries = <<>>
    /\ loaded = NoData
    /\ computeArgs = <<>>
    /\ status = "none"
    /\ events = <<>>
    /\ files = {}
    /\ tpc = "idle"

-----------------------------------------------------------------------------
(* CreateHaswellSimulator: the creation of the ports, for any target description *)

\* The processor resources a target description can have at an index >= 1: a
\* resource of one or two units, or a group of two resources.
ResourceShapes ==
    {[NumUnits |-> 1, SubUnits |-> <<>>], [NumUnits |-> 2, SubUnits |-> <<>>],
     [NumUnits |-> 2, SubUnits |-> <<1, 2>>]}

InvalidUnit == [NumUnits |-> 0, SubUnits |-> <<>>]

\* The target descriptions: resource 0 is the invalid resource.
SchedModels ==
    UNION {{[NumProcResourceKinds |-> n,
             ProcResource |-> [r \in 0..(n - 1) |-> IF r = 0 THEN InvalidUnit ELSE f[r]]] :
              f \in [1..(n - 1) -> ResourceShapes]} : n \in 1..MaxResourceKinds}

\* The first index of the port creation loop.
FirstProcResIdx == 1

\* A variant of the loop that creates a port for every resource, groups included.
IsDispatchPort_EveryResource(r) == TRUE
\* The resource r gets a port: ProcResDesc->SubUnitsIdxBegin == nullptr.
IsDispatchPort(r) == schedModel.ProcResource[r].SubUnits = <<>>

\* The name pushed for the port of resource r: ProcResDesc->Name in a build with
\* dumps, "ProcResIdx r" otherwise.
PortNameOf(r) == IF debugNames THEN <<"Name", r>> ELSE <<"ProcResIdx", r>>

\* The state after CreateHaswellSimulator has run on the target description m.
Built(m) ==
    LET idx == SelectSeq([i \in 1..(m.NumProcResourceKinds - 1) |-> i],
                         LAMBDA r : m.ProcResource[r].SubUnits = <<>>) IN
    /\ schedModel = m
    /\ debugNames = TRUE
    /\ ProcResIdx = m.NumProcResourceKinds
    /\ Ports = [k \in 1..Len(idx) |-> [res |-> idx[k], NumUnits |-> m.ProcResource[idx[k]].NumUnits]]
    /\ PortSinks = [k \in 1..Len(idx) |-> k]
    /\ PortNames = [k \in 1..Len(idx) |-> <<"Name", idx[k]>>]
    /\ unitPorts = [k \in 1..Len(idx) |-> k]
    /\ addedPorts = [k \in 1..Len(idx) |-> [port |-> k, name |-> <<"Name", idx[k]>>]]
    /\ routed = {}
    /\ wpc = "built"

\* The pipeline is not run while the ports are being created.
PipelineIdle ==
    /\ stream = <<>>
    /\ nextInstr = 1
    /\ buf = [b \in BufferNames |-> <<>>]
    /\ ports = <<>>
    /\ rob = <<>>
    /\ depsAvailable = {}
    /\ inflight = <<>>
    /\ lastWriter = NoUop
    /\ pool = RenamerNumPhysicalRegisters
    /\ retired = <<>>
    /\ unsupported = <<>>
    /\ cycle = 1
    /\ pc = 1
    /\ done = TRUE
    /\ stepped = <<>>
    /\ hist = <<>>
    /\ rejected = {}

WiringInit ==
    /\ schedModel \in SchedModels
    /\ debugNames \in BOOLEAN
    /\ ProcResIdx = FirstProcResIdx
    /\ Ports = <<>>
    /\ PortSinks = <<>>
    /\ PortNames = <<>>
    /\ unitPorts = <<>>
    /\ addedPorts = <<>>
    /\ routed = {}
    /\ wpc = "ports"
    /\ PipelineIdle
    /\ ToolIdle

\* One iteration of the port creation loop: a resource without sub-units gets
\* a DispatchPort of NumUnits units, its sink and its name; the loop ends at
\* getNumProcResourceKinds().
PortLoop ==
    /\ wpc = "ports"
    /\ IF ProcResIdx < schedModel.NumProcResourceKinds
       THEN /\ IF IsDispatchPort(ProcResIdx)
               THEN /\ Ports' = Append(Ports, [res |-> ProcResIdx,
                                               NumUnits |-> schedModel.ProcResource[ProcResIdx].NumUnits])
                    /\ PortSinks' = Append(PortSinks, Len(Ports) + 1)
                    /\ PortNames' = Append(PortNames, PortNameOf(ProcResIdx))
               ELSE UNCHANGED <<Ports, PortSinks, PortNames>>
            /\ ProcResIdx' = ProcResIdx + 1
            /\ wpc' = wpc
       ELSE /\ wpc' = "units"
            /\ UNCHANGED <<ProcResIdx, Ports, PortSinks, PortNames>>
    /\ UNCHANGED <<schedModel, debugNames, unitPorts, addedPorts, routed, pipelineVars, toolVars>>

\* One iteration of the loop that adds a SimplifiedExecutionUnits for Ports[Port].
UnitLoop ==
    /\ wpc = "units"
    /\ IF Len(unitPorts) < Len(Ports)
       THEN unitPorts' = Append(unitPorts, Len(unitPorts) + 1) /\ wpc' = wpc
       ELSE wpc' = "buffers" /\ UNCHANGED unitPorts
    /\ UNCHANGED <<schedModel, debugNames, ProcResIdx, Ports, PortSinks, PortNames,
                   addedPorts, routed, pipelineVars, toolVars>>

\* One iteration of the loop that registers Ports[I] under PortNames[I].
BufferLoop ==
    /\ wpc = "buffers"
    /\ IF Len(addedPorts) < Len(Ports)
       THEN /\ addedPorts' = Append(addedPorts, [port |-> Len(addedPorts) + 1,
                                                 name |-> PortNames[Len(addedPorts) + 1]])
            /\ wpc' = wpc
       ELSE wpc' = "built" /\ UNCHANGED addedPorts
    /\ UNCHANGED <<schedModel, debugNames, ProcResIdx, Ports, PortSinks, PortNames,
                   unitPorts, routed, pipelineVars, toolVars>>

\* The position among the port sinks of the port of resource r: the ports are
\* created in the order of the resources that have no sub-units.
SinkPosition(r) ==
    Cardinality({q \in 1..r : schedModel.ProcResource[q].SubUnits = <<>>})

\* The ReorderBuffer dispatches a uop by resource id: for a resource with a
\* port of its own, to the sink at the position of that resource.
RouteUop ==
    /\ wpc = "built"
    /\ \E r \in 1..(schedModel.NumProcResourceKinds - 1) :
          /\ schedModel.ProcResource[r].SubUnits = <<>>
          /\ SinkPosition(r) \in 1..Len(PortSinks)
          /\ [res |-> r, port |-> PortSinks[SinkPosition(r)]] \notin routed
          /\ routed' = routed \cup {[res |-> r, port |-> PortSinks[SinkPosition(r)]]}
    /\ UNCHANGED <<schedModel, debugNames, ProcResIdx, Ports, PortSinks, PortNames,
                   unitPorts, addedPorts, wpc, pipelineVars, toolVars>>

WiringNext == PortLoop \/ UnitLoop \/ BufferLoop \/ RouteUop

WiringSpec == WiringInit /\ [][WiringNext]_vars

-----------------------------------------------------------------------------
(* compute_itineraries: the run of the tool *)

\* The state after google::ParseCommandLineFlags.
ToolInit ==
    /\ FLAGS_exegesis_only_llvm_mnemonics \in Strings(MaxFlagLen)
    /\ FLAGS_exegesis_output_itineraries \in OutputPaths
    /\ instruction_set = <<>>
    /\ itineraries = <<>>
    /\ loaded = NoData
    /\ computeArgs = <<>>
    /\ status = "none"
    /\ events = <<>>
    /\ files = {}
    /\ tpc = "main"
    /\ PipelineIdle
    /\ Built(SchedModel)

ToolStep(from, to, event) ==
    /\ tpc = from
    /\ tpc' = to
    /\ events' = IF event = "" THEN events ELSE Append(events, event)
    /\ UNCHANGED <<FLAGS_exegesis_only_llvm_mnemonics, FLAGS_exegesis_output_itineraries,
                   pipelineVars, wiringVars>>

\* main: the CHECK aborts the program when the output flag is empty.
CheckOutput ==
    /\ IF OutputChecked(FLAGS_exegesis_output_itineraries)
       THEN ToolStep("main", "Main", "")
       ELSE ToolStep("main", "aborted", "")
    /\ UNCHANGED <<instruction_set, itineraries, loaded, computeArgs, status, files>>

\* Main: SetCoreAffinity(FLAGS_exegesis_pin_to_core).
SetCoreAffinity ==
    /\ ToolStep("Main", "pinned", "SetCoreAffinity")
    /\ UNCHANGED <<instruction_set, itineraries, loaded, computeArgs, status, files>>

\* Main: the data is loaded and its instructions and itineraries are copied.
GetMicroArchitectureData ==
    /\ ToolStep("pinned", "loaded", "GetMicroArchitectureDataFromCommandLineFlags")
    /\ \E is \in ProtoLists, its \in ProtoLists :
          /\ loaded' = [instruction_set |-> is, itineraries |-> its]
          /\ instruction_set' = is
          /\ itineraries' = its
    /\ UNCHANGED <<computeArgs, status, files>>

\* Main: with a non-empty mnemonics flag, both copies are filtered.
FilterMnemonics ==
    /\ ToolStep("loaded", "filtered", "")
    /\ IF FLAGS_exegesis_only_llvm_mnemonics # <<>>
       THEN \E mnemonics \in {Mnemonics(FLAGS_exegesis_only_llvm_mnemonics)} :
               /\ instruction_set' = RemoveIf(instruction_set, mnemonics)
               /\ itineraries' = RemoveIf(itineraries, mnemonics)
       ELSE UNCHANGED <<instruction_set, itineraries>>
    /\ UNCHANGED <<loaded, computeArgs, status, files>>

\* Main: ComputeItineraries is called on the two copies and its status logged;
\* what it computes is the detail of each itinerary, which is not modelled.
ComputeItineraries ==
    /\ ToolStep("filtered", "computed", "ComputeItineraries")
    /\ computeArgs' = <<[instruction_set |-> instruction_set, itineraries |-> itineraries]>>
    /\ status' \in Statuses
    /\ UNCHANGED <<instruction_set, itineraries, loaded, files>>

\* Main: WriteTextProtoOrDie(FLAGS_exegesis_output_itineraries, itineraries);
\* the program dies when the file cannot be written.
WriteTextProtoOrDie ==
    /\ \/ /\ ToolStep("computed", "written", "WriteTextProtoOrDie")
          /\ files' = files \cup {[path |-> FLAGS_exegesis_output_itineraries,
                                   proto |-> itineraries]}
       \/ /\ ToolStep("computed", "died", "WriteTextProtoOrDie")
          /\ files' = files
    /\ UNCHANGED <<instruction_set, itineraries, loaded, computeArgs, status>>

\* main: return 0.
Return ==
    /\ ToolStep("written", "returned", "")
    /\ UNCHANGED <<instruction_set, itineraries, loaded, computeArgs, status, files>>

ToolNext ==
    \/ CheckOutput
    \/ SetCoreAffinity
    \/ GetMicroArchitectureData
    \/ FilterMnemonics
    \/ ComputeItineraries
    \/ WriteTextProtoOrDie
    \/ Return

ToolSpec == ToolInit /\ [][ToolNext]_vars

-----------------------------------------------------------------------------
Init ==
    /\ Built(SchedModel)
    /\ ToolIdle
    /\ stream \in Streams
    /\ nextInstr = 1
    /\ buf = [b \in BufferNames |-> <<>>]
    /\ ports = [p \in 1..NumPorts |-> <<>>]
    /\ rob = <<>>
    /\ depsAvailable = {}
    /\ inflight = [p \in 1..NumPorts |-> {}]
    /\ lastWriter = NoUop
    /\ pool = RenamerNumPhysicalRegisters
    /\ retired = <<>>
    /\ unsupported = <<>>
    /\ cycle = 1
    /\ pc = 1
    /\ done = FALSE
    /\ stepped = <<>>
    /\ hist = [u \in AllUops(stream) |-> NoHist]
    /\ rejected = {}

\* The Simulator steps the component at pc.
Stepping(kind) ==
    /\ ~done
    /\ pc <= Len(Components)
    /\ Components[pc].kind = kind

Advance(popped, pushed) ==
    /\ pc' = pc + 1
    /\ stepped' = Append(stepped, [kind |-> Components[pc].kind, port |-> Components[pc].port,
                                   in |-> popped, out |-> pushed])
    /\ UNCHANGED <<stream, cycle, done, wiringVars, toolVars>>

\* Fetcher: up to the fetch width of instructions, as far as the sink has room.
FetcherCount ==
    Min(FetcherConfig, Min(Len(stream) - nextInstr + 1, Room(buf, FetcherSink)))

StepFetcher ==
    /\ Stepping("Fetcher")
    /\ LET n == FetcherCount IN
        /\ buf' = [buf EXCEPT ![FetcherSink] = @ \o [i \in 1..n |-> nextInstr + i - 1]]
        /\ nextInstr' = nextInstr + n
        /\ Advance(n, n)
    /\ UNCHANGED <<ports, rob, depsAvailable, inflight, lastWriter, pool, retired,
                   unsupported, hist, rejected>>

\* InstructionParser: moves up to its width of instructions, as far as the sink has room.
ParserCount ==
    Min(InstructionParserConfig, Min(Len(buf[ParserSource]), Room(buf, ParserSink)))

StepParser ==
    /\ Stepping("InstructionParser")
    /\ LET n == ParserCount IN
        /\ buf' = [buf EXCEPT ![ParserSource] = Drop(@, n),
                              ![ParserSink] = @ \o Take(buf[ParserSource], n)]
        /\ Advance(n, n)
    /\ UNCHANGED <<nextInstr, ports, rob, depsAvailable, inflight, lastWriter, pool,
                   retired, unsupported, hist, rejected>>

\* InstructionDecoder: pops up to its width of instructions and pushes the uops of
\* each; an instruction without decomposition is reported unsupported.  It stops
\* when the sink is full or has no room for all the uops of the next instruction.
RECURSIVE DecodeLoop(_, _, _, _)
DecodeLoop(iq, idq, unsup, n) ==
    IF n = 0 \/ iq = <<>> \/ Len(idq) >= Capacity(DecoderSink)
    THEN [iq |-> iq, idq |-> idq, unsup |-> unsup]
    ELSE LET us == UopsOf(stream, Head(iq)) IN
         IF us = <<>>
         THEN DecodeLoop(Tail(iq), idq, Append(unsup, Head(iq)), n - 1)
         ELSE IF Len(idq) + Len(us) > Capacity(DecoderSink)
         THEN [iq |-> iq, idq |-> idq, unsup |-> unsup]
         ELSE DecodeLoop(Tail(iq), idq \o us, unsup, n - 1)

StepDecoder ==
    /\ Stepping("InstructionDecoder")
    /\ LET r == DecodeLoop(buf[DecoderSource], buf[DecoderSink], unsupported,
                           InstructionDecoderConfig) IN
        /\ buf' = [buf EXCEPT ![DecoderSource] = r.iq, ![DecoderSink] = r.idq]
        /\ unsupported' = r.unsup
        /\ Advance(Len(buf[DecoderSource]) - Len(r.iq), Len(r.idq) - Len(buf[DecoderSink]))
    /\ UNCHANGED <<nextInstr, ports, rob, depsAvailable, inflight, lastWriter, pool,
                   retired, hist, rejected>>

\* RegisterRenamer: pops up to its width of uops, takes one renaming resource for
\* each, and pushes the renamed uop (the uop with the producer of its input).  It
\* stalls when the pool is exhausted or the sink refuses the push.
RenamerCount ==
    Min(Min(RenamerUopsPerCycle, Len(buf[RenamerSource])),
        Min(pool, Room(buf, RenamerSink)))

Renamed(us, j) ==
    LET w == IF j = 1 THEN lastWriter ELSE us[j - 1] IN
    [uop |-> us[j],
     deps |-> IF UopDesc(stream, us[j]).reads /\ w # NoUop THEN {w} ELSE {}]

StepRenamer ==
    /\ Stepping("RegisterRenamer")
    /\ LET n == RenamerCount
           us == Take(buf[RenamerSource], n) IN
        /\ buf' = [buf EXCEPT ![RenamerSource] = Drop(@, n),
                              ![RenamerSink] = @ \o [j \in 1..n |-> Renamed(us, j)]]
        /\ lastWriter' = IF n = 0 THEN lastWriter ELSE us[n]
        /\ pool' = pool - n
        /\ Advance(n, n)
    /\ UNCHANGED <<nextInstr, ports, rob, depsAvailable, inflight, retired,
                   unsupported, hist, rejected>>

-----------------------------------------------------------------------------
(* ReorderBuffer *)

\* ExecDepsTracker: is-ready
IsReady(e) == e.deps \subseteq depsAvailable

\* The ports a uop that needs resource res can be dispatched to: the port of the
\* resource, or the ports of its sub-units when the resource is a group.
CandidatePorts(res) ==
    {p \in 1..NumPorts :
        \/ PortResIdx[p] = res
        \/ PortResIdx[p] \in Range(SchedModel.ProcResource[res].SubUnits)}

FreeUnits(pts, p) == PortCapacity(p) - Len(pts[p])

\* A variant of the ReorderBuffer's construction: IssuePolicy::Greedy().
IssuePolicy_Greedy == "Greedy"
\* haswell.cc: the issue policy the ReorderBuffer is constructed with
IssuePolicy == "LeastLoaded"

\* IssuePolicy::LeastLoaded: the candidate port with the most free units (the
\* first of them on a tie); any other policy takes the first candidate port
\* with a free unit.  0 when every candidate port is full.
ChoosePort(pts, res) ==
    LET free == {p \in CandidatePorts(res) : FreeUnits(pts, p) > 0} IN
    IF free = {} THEN 0
    ELSE IF IssuePolicy = "LeastLoaded"
    THEN CHOOSE p \in free : \A q \in free :
            \/ FreeUnits(pts, p) > FreeUnits(pts, q)
            \/ (FreeUnits(pts, p) = FreeUnits(pts, q) /\ p <= q)
    ELSE CHOOSE p \in free : \A q \in free : p <= q

\* A variant of Eligible that does not consult the dependency record.
Eligible_IgnoringDeps(e) == e.state = "queued"

\* An entry is dispatch-eligible when it is queued and its dependency record is clear.
Eligible(e) == e.state = "queued" /\ IsReady(e)

\* The entries from index i on that can be dispatched with the ports as in pts.
Dispatchable(entries, i, pts) ==
    {j \in i..Len(entries) :
        Eligible(entries[j]) /\ ChoosePort(pts, UopDesc(stream, entries[j].uop).res) # 0}

\* Dispatch: the entries in program order; each eligible entry goes to the port
\* the issue policy chooses, or stays queued when every candidate port refuses it.
RECURSIVE DispatchLoop(_, _, _, _)
DispatchLoop(entries, i, pts, disp) ==
    LET S == Dispatchable(entries, i, pts) IN
    IF S = {} THEN [ports |-> pts, disp |-> disp]
    ELSE CHOOSE r \in
            {DispatchLoop(entries, x.j + 1,
                          [pts EXCEPT ![x.p] = Append(@, entries[x.j].uop)],
                          disp \cup {entries[x.j].uop}) :
               x \in {[j |-> k, p |-> ChoosePort(pts, UopDesc(stream, entries[k].uop).res)] :
                        k \in {l \in S : \A m \in S : l <= m}}} : TRUE

\* The first index from `from` on whose entry is not in state st (Len + 1 if none).
FirstNot(entries, from, st) ==
    LET S == {i \in from..Len(entries) : entries[i].state # st} IN
    IF S = {} THEN Len(entries) + 1 ELSE CHOOSE i \in S : \A j \in S : i <= j

\* Retire eligibility: the completed entries that form the oldest outstanding
\* prefix (after the entries already sent to the Retirer), as many as the
\* retirement sink has room for.
RetireRange(entries, room) ==
    LET s0 == FirstNot(entries, 1, "retired")
        s1 == FirstNot(entries, s0, "completed")
    IN [from |-> s0, n |-> Min(s1 - s0, room)]

SetState(entries, S, from, to) ==
    [i \in 1..Len(entries) |->
        IF entries[i].uop \in S /\ entries[i].state = from
        THEN [entries[i] EXCEPT !.state = to] ELSE entries[i]]

\* The step of the ReorderBuffer; each phase works on the result of the one before.
StepROB ==
    /\ Stepping("ReorderBuffer")
    /\ \E nAlloc \in {Min(Len(buf[ROBUopSource]), NumROBEntries - Len(rob))} :
       \* 1. Allocate
       \E rob1 \in {rob \o [j \in 1..nAlloc |->
                              [uop |-> buf[ROBUopSource][j].uop,
                               deps |-> buf[ROBUopSource][j].deps,
                               state |-> "queued"]]} :
       \E b1 \in {[buf EXCEPT ![ROBUopSource] = Drop(@, nAlloc)]} :
       \* 2. Dispatch
       \E readyNow \in {{rob1[i].uop : i \in {j \in 1..Len(rob1) : Eligible(rob1[j])}}} :
       \E d \in {DispatchLoop(rob1, 1, ports, {})} :
       \E rob2 \in {SetState(rob1, d.disp, "queued", "dispatched")} :
       \* 3. Writeback and retire eligibility
       \E wb \in {Range(b1[ROBWritebackSource])} :
       \E b2 \in {[b1 EXCEPT ![ROBWritebackSource] = <<>>]} :
       \E rob3 \in {SetState(rob2, wb, "dispatched", "completed")} :
       \E rr \in {RetireRange(rob3, Room(b2, ROBRetirementSink))} :
       \E toRetire \in {[j \in 1..rr.n |-> rob3[rr.from + j - 1].uop]} :
       \E rob4 \in {SetState(rob3, Range(toRetire), "completed", "retired")} :
       \E b3 \in {[b2 EXCEPT ![ROBRetirementSink] = @ \o toRetire]} :
       \* 4. Release the entries the Retirer has finalized
       \E rel \in {Range(b3[ROBRetiredSource])} :
        /\ rob' = SelectSeq(rob4, LAMBDA e : e.uop \notin rel)
        /\ ports' = d.ports
        /\ depsAvailable' = depsAvailable \cup wb
        /\ buf' = [b3 EXCEPT ![ROBRetiredSource] = <<>>]
        /\ hist' = [u \in DOMAIN hist |->
                      [hist[u] EXCEPT
                         !.ready = IF u \in readyNow /\ @ = 0 THEN cycle ELSE @,
                         !.disp = IF u \in d.disp THEN cycle ELSE @,
                         !.done = IF u \in wb THEN cycle ELSE @]]
        /\ Advance(nAlloc, Cardinality(d.disp) + rr.n)
    /\ UNCHANGED <<nextInstr, inflight, lastWriter, pool, retired, unsupported, rejected>>

-----------------------------------------------------------------------------
(* SimplifiedExecutionUnits, Retirer, Simulator *)

\* A set of uops as a sequence in program order
RECURSIVE SortUops(_)
SortUops(S) ==
    IF S = {} THEN <<>>
    ELSE LET m == CHOOSE u \in S : \A v \in S : u = v \/ Older(u, v)
         IN <<m>> \o SortUops(S \ {m})

\* The execution unit of port p: takes the uops waiting in the port, holds each
\* for its latency, and pushes the finished ones onto the writeback sink.
StepExecutionUnit ==
    /\ Stepping("ExecutionUnit")
    /\ \E p \in {Components[pc].port} :
       \E taken \in {Range(ports[p])} :
       \E all \in {inflight[p] \cup
                   {[uop |-> u, at |-> cycle + UopDesc(stream, u).lat] : u \in taken}} :
       \E fin \in {SortUops({x.uop : x \in {y \in all : y.at <= cycle}})} :
       \E n \in {Min(Len(fin), Room(buf, ExecutionUnitSink))} :
       \E pushed \in {Range(Take(fin, n))} :
        /\ ports' = [ports EXCEPT ![p] = <<>>]
        /\ inflight' = [inflight EXCEPT ![p] = {x \in all : x.uop \notin pushed}]
        /\ buf' = [buf EXCEPT ![ExecutionUnitSink] = @ \o Take(fin, n)]
        /\ rejected' = IF n < Len(fin) THEN rejected \cup {ExecutionUnitSink} ELSE rejected
        /\ hist' = [u \in DOMAIN hist |->
                      [hist[u] EXCEPT
                         !.exec = IF u \in taken THEN cycle ELSE @,
                         !.wb = IF u \in pushed THEN cycle ELSE @]]
        /\ Advance(Cardinality(taken), n)
    /\ UNCHANGED <<nextInstr, rob, depsAvailable, lastWriter, pool, retired, unsupported>>

IsLastUop(u) == u[2] = Len(UopsOf(stream, u[1]))

\* Retirer: finalizes the uops of the ready-to-retire source, notifies the
\* ReorderBuffer through its sink, and reports an instruction to the instruction
\* sink when its last uop retires.
StepRetirer ==
    /\ Stepping("Retirer")
    /\ \E n \in {Min(Len(buf[RetirerSource]),
                     Room([buf EXCEPT ![RetirerSource] = <<>>], RetirerSink))} :
       \E us \in {Take(buf[RetirerSource], n)} :
       \E last \in {SelectSeq(us, IsLastUop)} :
       \E finalized \in {Range(us)} :
        /\ buf' = [[buf EXCEPT ![RetirerSource] = Drop(@, n)] EXCEPT ![RetirerSink] = @ \o us]
        /\ retired' = retired \o [j \in 1..Len(last) |-> [instr |-> last[j][1], cycle |-> cycle]]
        /\ rejected' = IF n < Len(buf[RetirerSource]) THEN rejected \cup {RetirerSink}
                       ELSE rejected
        /\ hist' = [u \in DOMAIN hist |->
                      [hist[u] EXCEPT !.ret = IF u \in finalized THEN cycle ELSE @]]
        /\ Advance(n, n)
    /\ UNCHANGED <<nextInstr, ports, rob, depsAvailable, inflight, lastWriter, pool,
                   unsupported>>

\* The instruction source is exhausted and every buffer and the ROB are empty.
Drained ==
    /\ nextInstr > Len(stream)
    /\ \A b \in BufferNames : buf[b] = <<>>
    /\ \A p \in 1..NumPorts : ports[p] = <<>>
    /\ rob = <<>>

\* Simulator: at the end of a cycle, stop when drained, else advance the clock.
EndCycle ==
    /\ ~done
    /\ pc = Len(Components) + 1
    /\ IF Drained
       THEN /\ done' = TRUE
            /\ UNCHANGED <<cycle, pc, stepped>>
       ELSE /\ cycle < MaxCycles(stream)
            /\ cycle' = cycle + 1
            /\ pc' = 1
            /\ stepped' = <<>>
            /\ UNCHANGED done
    /\ UNCHANGED <<stream, nextInstr, buf, ports, rob, depsAvailable, inflight,
                   lastWriter, pool, retired, unsupported, hist, rejected, wiringVars, toolVars>>

Next ==
    \/ StepFetcher
    \/ StepParser
    \/ StepDecoder
    \/ StepRenamer
    \/ StepROB
    \/ StepExecutionUnit
    \/ StepRetirer
    \/ EndCycle

Spec == Init /\ [][Next]_vars

\* The Simulator's loop runs until it stops.
FairSpec == Spec /\ WF_vars(Next)

-----------------------------------------------------------------------------
(* Properties *)

LastUop(i) == <<i, Len(UopsOf(stream, i))>>

Settled(st) == st \in {"completed", "retired"}

\* C1: program-order retirement.  The instructions are reported retired in
\* program order with non-decreasing retirement cycles, so that an older
\* instruction never retires in a later cycle than a younger one; and no uop
\* is on the ready-to-retire link, or marked as sent to it, while an older uop
\* in the ROB is not completed.
C1_ProgramOrderRetirement ==
    /\ \A i \in 1..(Len(retired) - 1) :
          /\ retired[i].instr < retired[i + 1].instr
          /\ retired[i].cycle <= retired[i + 1].cycle
    /\ \A j \in 1..Len(rob) : rob[j].state = "retired" =>
          \A i \in 1..Len(rob) : Older(rob[i].uop, rob[j].uop) => Settled(rob[i].state)
    /\ \A u \in Range(buf["UopsToRetireLink"]) :
          \A i \in 1..Len(rob) : Older(rob[i].uop, u) => Settled(rob[i].state)

\* Two instructions have retired, and the younger one finished executing first.
C1_Witness ==
    /\ Len(stream) < LongLen
    /\ \E i, j \in 1..Len(retired) :
          /\ retired[i].instr < retired[j].instr
          /\ hist[LastUop(retired[j].instr)].wb < hist[LastUop(retired[i].instr)].wb

\* C2: dependency gating.  Every uop of the ROB that has been dispatched has all
\* the inputs registered for it marked available, and the ROB consumed the
\* completion of each of its producers from the writeback link in a cycle not
\* after the one in which it dispatched the uop.
C2_DependencyGating ==
    \A i \in 1..Len(rob) : rob[i].state # "queued" =>
        \A d \in rob[i].deps :
            /\ d \in depsAvailable
            /\ hist[d].done # 0
            /\ hist[d].done <= hist[rob[i].uop].disp

\* A uop with a producer has been dispatched, after having waited in the ROB
\* for the producer.
C2_Witness ==
    \E i \in 1..Len(rob) :
        /\ rob[i].state = "dispatched"
        /\ rob[i].deps # {}
        /\ \E d \in rob[i].deps : hist[d].disp < hist[rob[i].uop].disp

\* C3: no capacity overflow.  The pre-decode queue holds at most 20 items, the
\* instruction decode queue at most 64, the ready-to-retire link at most 3, the
\* reorder buffer at most 192, and each dispatch port at most the NumUnits of
\* its resource.
C3_NoCapacityOverflow ==
    /\ Len(buf["InstructionQueue"]) <= 20
    /\ Len(buf["InstructionDecodeQueue"]) <= 64
    /\ Len(buf["UopsToRetireLink"]) <= 3
    /\ Len(rob) <= 192
    /\ \A p \in 1..NumPorts :
          Len(ports[p]) <= SchedModel.ProcResource[PortResIdx[p]].NumUnits

\* The pre-decode queue and the reorder buffer are full, the decode queue has
\* just been drained by one renamer step, and more instructions and uops wait
\* behind each of them.
C3_Witness ==
    /\ Len(buf["InstructionQueue"]) = 20
    /\ Len(buf["InstructionDecodeQueue"]) >= 61
    /\ Len(rob) = 192
    /\ buf["FetchedInstructionsLink"] # <<>>
    /\ buf["RenamerToROBLink"] # <<>>

RetiredInstrs == {retired[i].instr : i \in 1..Len(retired)}

\* Where the uops of the pipeline are
UopsInFlight ==
    Range(buf["InstructionDecodeQueue"])
      \cup {buf["RenamerToROBLink"][i].uop : i \in 1..Len(buf["RenamerToROBLink"])}
      \cup {rob[i].uop : i \in 1..Len(rob)}

InstrsInFrontEnd == Range(buf["FetchedInstructionsLink"]) \cup Range(buf["InstructionQueue"])

\* Every uop of a fetched instruction is in the front end with its instruction,
\* in the decode queue, the renamed-uops link or the ROB, or has been finalized
\* by the Retirer; every fetched instruction without uops is in the front end or
\* has been reported unsupported.
Conserved ==
    \E fe \in {InstrsInFrontEnd} : \E uf \in {UopsInFlight} : \E un \in {Range(unsupported)} :
        \A i \in 1..(nextInstr - 1) :
            \/ i \in fe
            \/ IF UopsOf(stream, i) = <<>>
               THEN i \in un
               ELSE \A u \in Range(UopsOf(stream, i)) : u \in uf \/ hist[u].ret # 0

\* No instruction is reported twice, or both retired and unsupported, and an
\* instruction is reported retired only when all its uops have been finalized.
ReportedOnce ==
    \E ri \in {RetiredInstrs} : \E un \in {Range(unsupported)} :
        /\ Cardinality(ri) = Len(retired)
        /\ Cardinality(un) = Len(unsupported)
        /\ ri \cap un = {}
        /\ \A i \in ri :
              /\ i < nextInstr
              /\ \A u \in Range(UopsOf(stream, i)) : hist[u].ret # 0

\* Every instruction of the stream has been reported, retired or unsupported.
AllReported == RetiredInstrs \cup Range(unsupported) = 1..Len(stream)

\* C4: conservation.  At every moment every fetched instruction and each of its
\* uops is still in the pipeline or has been reported (retired, or unsupported),
\* no instruction is reported twice, and eventually every instruction of the
\* stream has been reported retired or unsupported.
C4_Conservation == [](Conserved /\ ReportedOnce) /\ <>AllReported

\* A run has ended in which one instruction was reported unsupported and
\* another, of several uops, was retired.
C4_Witness ==
    /\ done
    /\ unsupported # <<>>
    /\ \E i \in RetiredInstrs : Len(UopsOf(stream, i)) > 1

NothingInFlight ==
    /\ nextInstr > Len(stream)
    /\ \A b \in DOMAIN buf : buf[b] = <<>>
    /\ \A p \in DOMAIN ports : ports[p] = <<>> /\ inflight[p] = {}
    /\ rob = <<>>

\* In the cycle that ends, some component moved an item, or an execution unit
\* holds a uop whose latency is elapsing.
MadeProgress ==
    \/ \E k \in 1..Len(stepped) : stepped[k].in + stepped[k].out > 0
    \/ \E p \in DOMAIN inflight : inflight[p] # {}

RECURSIVE FlatUops(_)
FlatUops(is) == IF is = <<>> THEN <<>> ELSE UopsOf(stream, Head(is)) \o FlatUops(Tail(is))

WithoutUops(is) == SelectSeq(is, LAMBDA i : UopsOf(stream, i) = <<>>)

\* The Simulator has just stepped a component of this kind.
JustStepped(kind) ==
    /\ Len(stepped') = Len(stepped) + 1
    /\ stepped'[Len(stepped')].kind = kind

\* A Parser step with a full pre-decode queue changes neither queue; any Parser
\* step moves a prefix of the fetch link to the end of the pre-decode queue.
ParserBackpressure ==
    JustStepped("InstructionParser") =>
        /\ Len(buf["InstructionQueue"]) = 20 =>
              /\ buf'["InstructionQueue"] = buf["InstructionQueue"]
              /\ buf'["FetchedInstructionsLink"] = buf["FetchedInstructionsLink"]
        /\ Len(buf'["InstructionQueue"]) <= 20
        /\ Len(buf'["InstructionQueue"]) >= Len(buf["InstructionQueue"])
        /\ buf'["InstructionQueue"] \o buf'["FetchedInstructionsLink"]
              = buf["InstructionQueue"] \o buf["FetchedInstructionsLink"]

\* A Decoder step with a full decode queue changes neither queue; any Decoder
\* step takes a prefix of the pre-decode queue and appends the uops of those
\* instructions, in order, to the decode queue (reporting those without uops).
DecoderBackpressure ==
    JustStepped("InstructionDecoder") =>
        /\ Len(buf["InstructionDecodeQueue"]) = 64 =>
              /\ buf'["InstructionDecodeQueue"] = buf["InstructionDecodeQueue"]
              /\ buf'["InstructionQueue"] = buf["InstructionQueue"]
        /\ Len(buf'["InstructionDecodeQueue"]) <= 64
        /\ \E k \in 0..Len(buf["InstructionQueue"]) :
              /\ buf'["InstructionQueue"] = Drop(buf["InstructionQueue"], k)
              /\ buf'["InstructionDecodeQueue"]
                    = buf["InstructionDecodeQueue"] \o FlatUops(Take(buf["InstructionQueue"], k))
              /\ unsupported' = unsupported \o WithoutUops(Take(buf["InstructionQueue"], k))

\* C6: backpressure in the front end.  A Parser or Decoder step whose output
\* queue is full pushes nothing and leaves its input untouched; a step that
\* stops part-way leaves the items it did not consume at the head of its input,
\* in order, and what it consumed at the end of its output, in order.
C6_FrontEndBackpressure == [][ParserBackpressure /\ DecoderBackpressure]_vars

\* In one cycle the Parser found the pre-decode queue full and pushed nothing,
\* with instructions waiting in the fetch link, and the Decoder then stopped
\* part-way for lack of room in the decode queue.
C6_Witness ==
    /\ pc = 4
    /\ stepped[2].kind = "InstructionParser" /\ stepped[2].out = 0
    /\ buf["FetchedInstructionsLink"] # <<>>
    /\ stepped[3].kind = "InstructionDecoder"
    /\ stepped[3].in > 0 /\ stepped[3].in < 5
    /\ buf["InstructionQueue"] # <<>>
    /\ Len(buf["InstructionDecodeQueue"])
          + Len(UopsOf(stream, Head(buf["InstructionQueue"]))) > 64

\* The renamed uops that have left the renamer and are not yet retired.
RenamedNotRetired ==
    Len(buf["RenamerToROBLink"]) + Cardinality({i \in 1..Len(rob) : rob[i].state # "retired"})

\* C7: ROB exhaustion stalls the renamer.  A RegisterRenamer step taken while
\* the ROB has no free entry pushes nothing and leaves the decode queue as it
\* is, and the renamed uops that are not yet retired never exceed the 192
\* entries of the ROB.
C7_ROBExhaustionStallsRenamer ==
    /\ (pc = 5 /\ stepped[4].kind = "RegisterRenamer" /\ Len(rob) = 192)
          => (stepped[4].in = 0 /\ stepped[4].out = 0)
    /\ RenamedNotRetired <= 192

\* The renamer has pushed uops onto the renamed-uops link in a cycle in which
\* every entry of the ROB was taken.
C7_Witness ==
    /\ pc = 5
    /\ Len(rob) = 192
    /\ stepped[4].kind = "RegisterRenamer" /\ stepped[4].out > 0
    /\ RenamedNotRetired > 192

\* The resources with a port of their own that has a single unit.
SingleUnitResources ==
    {r \in 1..(SchedModel.NumProcResourceKinds - 1) :
        SchedModel.ProcResource[r].SubUnits = <<>> /\ SchedModel.ProcResource[r].NumUnits = 1}

\* The uop was queued in the ROB with its dependencies cleared at the dispatch
\* phase of cycle c: dispatch-eligible by then and not dispatched before.
QueuedReadyIn(u, c) ==
    /\ hist[u].ready \in 1..c
    /\ hist[u].disp = 0 \/ hist[u].disp >= c

\* The pairs (A older than B) of uops of the ROB that need the same single-unit
\* resource and were both queued and ready in cycle c.
ContendingPairs(c) ==
    LET U == {rob[i].uop : i \in 1..Len(rob)}
        Q == {u \in U : UopDesc(stream, u).res \in SingleUnitResources /\ QueuedReadyIn(u, c)}
    IN {x \in Q \X Q : Older(x[1], x[2]) /\ UopDesc(stream, x[1]).res = UopDesc(stream, x[2]).res}

\* A uop of the ROB other than A and B, older than B, that can use the port of
\* resource r and was queued and ready in cycle c.
HasRival(A, B, r, c) ==
    \E i \in 1..Len(rob) :
        /\ rob[i].uop \notin {A, B}
        /\ Older(rob[i].uop, B)
        /\ \E p \in CandidatePorts(UopDesc(stream, rob[i].uop).res) : PortResIdx[p] = r
        /\ QueuedReadyIn(rob[i].uop, c)

\* The ReorderBuffer has been stepped in this cycle, which is not the first.
AfterROBStep == cycle >= 2 /\ pc > 5

\* C8 as stated: of two uops that need the same single-unit port and are both
\* queued and ready in a cycle, the older is dispatched in that cycle and the
\* younger in the next.
C8_PortContention_AsStated ==
    AfterROBStep =>
        \A x \in ContendingPairs(cycle - 1) :
            /\ hist[x[1]].disp = cycle - 1
            /\ hist[x[2]].disp = cycle

\* C8: port contention.  Of two uops that need the same single-unit port and
\* are both queued and ready in a cycle, the younger is not dispatched in that
\* cycle; when no other older uop that can use the port is queued and ready in
\* that cycle, the older of the two is dispatched in it; and when there is none
\* in the next cycle either, the younger is dispatched in the next cycle.
C8_PortContention ==
    AfterROBStep =>
        \A x \in ContendingPairs(cycle - 1) :
            \E r \in {UopDesc(stream, x[1]).res} :
                /\ hist[x[2]].disp # cycle - 1
                /\ ~HasRival(x[1], x[2], r, cycle - 1) =>
                      /\ hist[x[1]].disp = cycle - 1
                      /\ ~HasRival(x[1], x[2], r, cycle) => hist[x[2]].disp = cycle

\* Two uops contended alone for a single-unit port; the older was dispatched in
\* the cycle before and the younger in this one.
C8_Witness ==
    /\ pc = 6
    /\ cycle >= 2
    /\ \E x \in ContendingPairs(cycle - 1) :
          /\ ~HasRival(x[1], x[2], UopDesc(stream, x[1]).res, cycle - 1)
          /\ ~HasRival(x[1], x[2], UopDesc(stream, x[1]).res, cycle)
          /\ hist[x[1]].disp = cycle - 1
          /\ hist[x[2]].disp = cycle

\* The position of the execution unit of port p among the components.
UnitPosition(p) == CHOOSE k \in 1..Len(Components) :
                      Components[k].kind = "ExecutionUnit" /\ Components[k].port = p

\* C9: writeback never backpressures.  No push onto the executed-writeback link
\* or the retired-uops link is ever refused: an execution unit holds no uop
\* past the cycle in which its latency has elapsed, every uop is written back
\* exactly its latency after the unit took it, and the Retirer leaves nothing
\* in the ready-to-retire link.
C9_WritebackNeverBackpressures ==
    /\ "ExecutedWritebackLink" \notin rejected
    /\ "RetiredUopsLink" \notin rejected
    /\ \A p \in DOMAIN inflight : \A x \in inflight[p] :
          /\ x.at >= cycle
          /\ pc > UnitPosition(p) => x.at > cycle
    /\ \A u \in DOMAIN hist :
          hist[u].wb # 0 => hist[u].wb = hist[u].exec + UopDesc(stream, u).lat
    /\ pc = Len(Components) + 1 => buf["UopsToRetireLink"] = <<>>

\* All the execution units have been stepped and the writeback link holds more
\* results, pushed in this cycle by more than one unit, than the bounded link
\* of the pipeline could hold.
C9_Witness ==
    /\ pc = Len(Components)
    /\ Len(buf["ExecutedWritebackLink"]) > 3
    /\ \A k \in 1..Len(buf["ExecutedWritebackLink"]) :
          hist[buf["ExecutedWritebackLink"][k]].wb = cycle
    /\ \A p \in DOMAIN ports :
          \E k \in 1..Len(stepped) : stepped[k].kind = "ExecutionUnit"
                /\ stepped[k].port = p /\ stepped[k].out > 0

\* The order of the claim: Fetcher, Parser, Decoder, RegisterRenamer,
\* ReorderBuffer, the execution units in port order, Retirer.
StepOrder ==
    << <<"Fetcher", 0>>, <<"InstructionParser", 0>>, <<"InstructionDecoder", 0>>,
       <<"RegisterRenamer", 0>>, <<"ReorderBuffer", 0>> >>
    \o [p \in 1..Len(ports) |-> <<"ExecutionUnit", p>>]
    \o << <<"Retirer", 0>> >>

\* The components stepped so far in this cycle are the first of the order.
SteppedInOrder ==
    /\ Len(stepped) <= Len(StepOrder)
    /\ \A k \in 1..Len(stepped) : <<stepped[k].kind, stepped[k].port>> = StepOrder[k]

\* A step within a cycle steps one more component; the clock advances, or the
\* run stops, only when every component has been stepped.
OneStepInOrder ==
    /\ (cycle' = cycle /\ done' = done) =>
          /\ Len(stepped) < Len(StepOrder)
          /\ stepped' = Append(stepped, stepped'[Len(stepped')])
    /\ (cycle' # cycle \/ done' # done) => Len(stepped) = Len(StepOrder)
    /\ cycle' # cycle => (cycle' = cycle + 1 /\ stepped' = <<>>)

\* C10: fixed step order.  In every cycle the components are stepped in the
\* order Fetcher, Parser, Decoder, RegisterRenamer, ReorderBuffer, execution
\* units in port order, Retirer, each once; every step of the run steps the
\* next component of that order, and the clock advances, or the run stops,
\* only when all of them have been stepped.
C10_FixedStepOrder == [](SteppedInOrder) /\ [][OneStepInOrder]_vars

\* A cycle after the first has stepped every component, with work done by the
\* Fetcher's successors, the ReorderBuffer, an execution unit and the Retirer.
C10_Witness ==
    /\ cycle >= 2
    /\ Len(stepped) = Len(StepOrder)
    /\ SteppedInOrder
    /\ \E k \in 1..Len(stepped) : stepped[k].kind = "ExecutionUnit" /\ stepped[k].out > 0
    /\ stepped[5].out > 0
    /\ stepped[Len(stepped)].kind = "Retirer" /\ stepped[Len(stepped)].out > 0

\* The step just taken is that of the k-th component added to the Simulator.
JustSteppedAt(k) == Len(stepped') = k /\ Len(stepped) = k - 1

IsPrefix(s, t) == Len(s) <= Len(t) /\ SubSeq(t, 1, Len(s)) = s

\* The ROB slots change only in the ReorderBuffer's step and the renaming pool
\* only in the RegisterRenamer's.
SlotsAndPoolExclusive ==
    /\ rob' # rob => JustStepped("ReorderBuffer")
    /\ pool' # pool => JustStepped("RegisterRenamer")

\* Some uop was pushed onto a port by the ReorderBuffer and taken from that
\* port by an execution unit in one and the same cycle.
PortMutatedByTwo == \E u \in DOMAIN hist : hist[u].disp # 0 /\ hist[u].exec = hist[u].disp

\* C11 as stated: the ROB slots, the renaming pool and each dispatch port are
\* changed by one component only, and no port is changed by two components in
\* one cycle.
C11_ExclusiveMutation_AsStated == [][SlotsAndPoolExclusive]_vars /\ [](~PortMutatedByTwo)

\* A port changes only when the ReorderBuffer, the fifth component, appends
\* to it, or when the execution unit created for it empties it and takes the
\* uops in; the uops a unit holds change only in that unit's step.
PortsSharedInTurn ==
    \A p \in DOMAIN ports :
        /\ ports'[p] # ports[p] =>
              \/ JustSteppedAt(5) /\ JustStepped("ReorderBuffer") /\ IsPrefix(ports[p], ports'[p])
              \/ JustSteppedAt(5 + p) /\ JustStepped("ExecutionUnit") /\ ports'[p] = <<>>
        /\ inflight'[p] # inflight[p] => JustSteppedAt(5 + p) /\ JustStepped("ExecutionUnit")

\* C11: exclusive mutation.  The ROB slots are changed only by the
\* ReorderBuffer's step and the renaming pool only by the RegisterRenamer's;
\* each dispatch port is changed by two components, each in its own step: the
\* ReorderBuffer, which only appends to it, and the port's execution unit,
\* which only empties it; no other component changes a port.
C11_ExclusiveMutation == [][SlotsAndPoolExclusive /\ PortsSharedInTurn]_vars

\* In one cycle the RegisterRenamer has taken from the pool, the ReorderBuffer
\* has pushed a uop onto a port, and the port's execution unit has taken it.
C11_Witness ==
    /\ pc = Len(Components) + 1
    /\ stepped[4].out > 0
    /\ \E u \in DOMAIN hist : hist[u].disp = cycle /\ hist[u].exec = cycle
    /\ \A p \in DOMAIN ports : ports[p] = <<>>

\* The uop that follows u in program order among the uops of the instructions
\* in the sequence is (instruction stream order, then uop order); NoUop if none.
NextUop(u, is) ==
    IF u[2] < Len(UopsOf(stream, u[1])) THEN <<u[1], u[2] + 1>>
    ELSE LET S == {k \in 1..Len(is) : is[k] > u[1] /\ UopsOf(stream, is[k]) # <<>>} IN
         IF S = {} THEN NoUop ELSE <<is[CHOOSE k \in S : \A l \in S : k <= l], 1>>

\* The uops on their way to and in the ROB, oldest first: the entries of the
\* ROB, the renamed-uops link, the decode queue.
UopsTowardsROB ==
    [i \in 1..Len(rob) |-> rob[i].uop]
      \o [i \in 1..Len(buf["RenamerToROBLink"]) |-> buf["RenamerToROBLink"][i].uop]
      \o buf["InstructionDecodeQueue"]

\* The instructions not yet decoded, oldest first.
InstrsTowardsDecoder == buf["InstructionQueue"] \o buf["FetchedInstructionsLink"]

\* The instructions not yet decoded are consecutive instructions of the stream
\* up to the last one fetched, and the uops in and before the ROB are
\* consecutive uops of the program, followed by the first uop not yet decoded.
InProgramOrder ==
    \E is \in {InstrsTowardsDecoder} : \E us \in {UopsTowardsROB} :
        /\ \A k \in 1..Len(is) : is[k] = nextInstr - 1 - (Len(is) - k)
        /\ \A k \in 1..(Len(us) - 1) :
              us[k + 1] = NextUop(us[k], [i \in 1..(us[k + 1][1] - us[k][1]) |-> us[k][1] + i])
        /\ us # <<>> => NextUop(us[Len(us)], is) = NextUop(us[Len(us)], [i \in 1..(nextInstr - 1 - us[Len(us)][1]) |-> us[Len(us)][1] + i])

\* A ReorderBuffer step allocates the uops at the head of the renamed-uops
\* link, in the order of the link, after the entries it already holds.
AllocatesFromHead ==
    JustStepped("ReorderBuffer") =>
        \E n \in 0..Len(buf["RenamerToROBLink"]) :
            /\ buf'["RenamerToROBLink"] = Drop(buf["RenamerToROBLink"], n)
            /\ \E k \in 0..Len(rob) :
                  [i \in 1..Len(rob') |-> rob'[i].uop]
                    = [i \in 1..(Len(rob) - k) |-> rob[k + i].uop]
                        \o [i \in 1..n |-> buf["RenamerToROBLink"][i].uop]

\* C12: program-order allocation.  The uops enter the ROB in program order
\* (instruction stream order, then uop order within an instruction) without
\* gaps, whatever the stalls in the buffers before it: every buffer on the way
\* holds its items in program order and the ReorderBuffer allocates from the
\* head of the renamed-uops link.
C12_ProgramOrderAllocation == [](InProgramOrder) /\ [][AllocatesFromHead]_vars

\* The ReorderBuffer has allocated uops in a cycle in which the ROB is full,
\* uops wait in the renamed-uops link and the decode queue, and instructions
\* wait in a full pre-decode queue and in the fetch link.
C12_Witness ==
    /\ pc = 6
    /\ stepped[5].in > 0
    /\ Len(rob) = 192
    /\ buf["RenamerToROBLink"] # <<>>
    /\ buf["InstructionDecodeQueue"] # <<>>
    /\ Len(buf["InstructionQueue"]) >= 19
    /\ buf["FetchedInstructionsLink"] # <<>>

\* The lifecycle state of an entry of the ROB, given the uops waiting in the
\* ports: a dispatched uop is executing from the moment the execution unit
\* has taken it from its port until the ReorderBuffer consumes its completion.
Lifecycle(e, inPorts) ==
    IF e.state = "dispatched" /\ e.uop \notin inPorts THEN "executing" ELSE e.state

LifecycleRank(st) ==
    CASE st = "queued" -> 1 [] st = "dispatched" -> 2 [] st = "executing" -> 3
      [] st = "completed" -> 4 [] st = "retired" -> 5

UopsInPorts(pts) == UNION {Range(pts[p]) : p \in DOMAIN pts}

\* Every entry has passed, in order, through the states before its own: it was
\* queued and ready no later than it was dispatched, taken by a unit no earlier
\* than dispatched, written back after its latency and completed after that.
PassedEarlierStates ==
    \E inPorts \in {UopsInPorts(ports)} :
    \A i \in 1..Len(rob) :
        \E h \in {hist[rob[i].uop]} : \E k \in {LifecycleRank(Lifecycle(rob[i], inPorts))} :
            /\ k = 1 => (h.disp = 0 /\ h.exec = 0 /\ h.done = 0 /\ h.ret = 0)
            /\ k >= 2 => (h.ready # 0 /\ h.ready <= h.disp)
            /\ k = 2 => (h.exec = 0 /\ h.done = 0 /\ h.ret = 0)
            /\ k >= 3 => (h.exec # 0 /\ h.disp <= h.exec)
            /\ k = 3 => (h.done = 0 /\ h.ret = 0)
            /\ k >= 4 => (h.wb # 0 /\ h.exec < h.wb /\ h.wb < h.done)
            /\ k = 4 => h.ret = 0

\* No entry returns to an earlier state (the entries that stay keep their
\* order, behind those that leave), an entry enters the ROB queued (or
\* dispatched, when the step that allocated it dispatched it), it leaves the ROB
\* only from state retired and never comes back, and the cycle in which it
\* reached a state is never rewritten.
NoRegression ==
    \E inPorts \in {UopsInPorts(ports)} : \E inPortsNext \in {UopsInPorts(ports')} :
    \E now \in {{rob[i].uop : i \in 1..Len(rob)}} :
    \E next \in {{rob'[i].uop : i \in 1..Len(rob')}} :
        /\ \E k \in {Cardinality(now \ next)} : \A i \in 1..Len(rob) :
              IF rob[i].uop \in next
              THEN /\ i > k
                   /\ rob'[i - k].uop = rob[i].uop
                   /\ LifecycleRank(Lifecycle(rob'[i - k], inPortsNext))
                         >= LifecycleRank(Lifecycle(rob[i], inPorts))
              ELSE rob[i].state = "retired" /\ hist'[rob[i].uop].ret # 0
        /\ \A j \in 1..Len(rob') :
              rob'[j].uop \notin now =>
                 /\ rob'[j].state \in {"queued", "dispatched"}
                 /\ hist[rob'[j].uop] = NoHist
        /\ \A u \in now \cup next :
              /\ hist[u].disp # 0 => hist'[u].disp = hist[u].disp
              /\ hist[u].exec # 0 => hist'[u].exec = hist[u].exec
              /\ hist[u].wb # 0 => hist'[u].wb = hist[u].wb
              /\ hist[u].done # 0 => hist'[u].done = hist[u].done
              /\ hist[u].ret # 0 => hist'[u].ret = hist[u].ret

\* C13: monotonic uop lifecycle.  Every uop of the ROB goes through queued,
\* dispatched, executing, completed, retired in that order: it never returns
\* to an earlier state, it is in no state without having been in the ones
\* before, and once retired it only leaves the ROB.
C13_MonotonicLifecycle == [](PassedEarlierStates) /\ [][NoRegression]_vars

\* The ROB holds at once queued, executing, completed and retired uops, and
\* the retired one has been through every state before.
C13_Witness ==
    /\ \A st \in {"queued", "executing", "completed", "retired"} :
          \E i \in 1..Len(rob) : Lifecycle(rob[i], UopsInPorts(ports)) = st
    /\ \E i \in 1..Len(rob) :
          /\ rob[i].state = "retired"
          /\ \E h \in {hist[rob[i].uop]} :
                h.ready > 0 /\ h.ready <= h.disp /\ h.disp <= h.exec /\ h.exec < h.wb /\ h.wb < h.done

NoDuplicates(q) == Cardinality(Range(q)) = Len(q)

\* Every uop occupies one slot; the uops in the ready-to-retire link and the
\* notifications in the retired-uops link are of occupied slots in state
\* retired, once each, and the Retirer has not finalized a uop that is still
\* completed or in the ready-to-retire link.
SlotsHeldUntilNotified ==
    \E occ \in {[i \in 1..Len(rob) |-> rob[i].uop]} :
    \E retiredNow \in {{rob[i].uop : i \in {j \in 1..Len(rob) : rob[j].state = "retired"}}} :
        /\ Len(rob) <= 192
        /\ NoDuplicates(occ)
        /\ NoDuplicates(buf["UopsToRetireLink"] \o buf["RetiredUopsLink"])
        /\ Range(buf["UopsToRetireLink"]) \cup Range(buf["RetiredUopsLink"]) = retiredNow
        /\ \A u \in Range(buf["UopsToRetireLink"]) : hist[u].ret = 0
        /\ \A u \in Range(buf["RetiredUopsLink"]) : hist[u].ret # 0
        /\ \A i \in 1..Len(rob) : rob[i].state # "retired" => hist[rob[i].uop].ret = 0

\* A slot is freed only by the ReorderBuffer's step, for exactly the uops whose
\* notification that step consumes from the retired-uops link; the Retirer
\* notifies each uop it takes from the ready-to-retire link once.
FreedOnNotification ==
    \E now \in {{rob[i].uop : i \in 1..Len(rob)}} :
    \E next \in {{rob'[i].uop : i \in 1..Len(rob')}} :
        /\ now \ next # {} => JustStepped("ReorderBuffer")
        /\ JustStepped("ReorderBuffer") =>
              /\ now \ next = Range(buf["RetiredUopsLink"])
              /\ buf'["RetiredUopsLink"] = <<>>
        /\ JustStepped("Retirer") =>
              \E n \in 0..Len(buf["UopsToRetireLink"]) :
                 /\ buf'["UopsToRetireLink"] = Drop(buf["UopsToRetireLink"], n)
                 /\ buf'["RetiredUopsLink"]
                       = buf["RetiredUopsLink"] \o Take(buf["UopsToRetireLink"], n)
        /\ ~JustStepped("ReorderBuffer") /\ ~JustStepped("Retirer") =>
              buf'["RetiredUopsLink"] = buf["RetiredUopsLink"]

\* C14: ROB slot release.  An entry stays in the ROB from its allocation until
\* the ReorderBuffer consumes the Retirer's notification for its uop from the
\* retired-uops link: completing, or being pushed onto the ready-to-retire
\* link, frees nothing; each retired uop is notified once, and no slot is
\* freed twice or taken again before its occupant is retired.
C14_SlotRelease == [](SlotsHeldUntilNotified) /\ [][FreedOnNotification]_vars

\* After a ReorderBuffer step that freed the slots of the uops notified in the
\* cycle before, the ROB still holds a completed uop behind an unfinished one
\* and a uop it has just pushed onto the ready-to-retire link.
C14_Witness ==
    /\ pc = 6
    /\ cycle >= 2
    /\ \E u \in DOMAIN hist :
          hist[u].ret = cycle - 1 /\ \A i \in 1..Len(rob) : rob[i].uop # u
    /\ \E i \in 1..Len(rob) : rob[i].state = "completed"
    /\ \E i \in 1..Len(rob) :
          rob[i].state = "retired" /\ rob[i].uop \in Range(buf["UopsToRetireLink"])

\* The index of the first entry of the sequence that is not retired (Len + 1 if none).
FirstUnretired(entries) ==
    LET S == {i \in 1..Len(entries) : entries[i].state # "retired"} IN
    IF S = {} THEN Len(entries) + 1 ELSE CHOOSE i \in S : \A j \in S : i <= j

\* The retired entries of the ROB are its oldest entries, and no more than 3
\* uops wait in the ready-to-retire link.
RetiredIsOldestPrefix ==
    /\ Len(buf["UopsToRetireLink"]) <= 3
    /\ \E f \in {FirstUnretired(rob)} : \A i \in f..Len(rob) : rob[i].state # "retired"

\* A ReorderBuffer step pushes at most 3 uops onto the ready-to-retire link:
\* the oldest entries not yet pushed, all completed, in order, and all of them
\* unless the link is full.  A Retirer step finalizes at most 3 uops, and no
\* more than 3 are finalized in one cycle.
RetiresWithinWidth ==
    /\ JustStepped("ReorderBuffer") =>
          \E n \in {Len(buf'["UopsToRetireLink"]) - Len(buf["UopsToRetireLink"])} :
          \E f \in {FirstUnretired(rob')} :
              /\ n >= 0 /\ n <= 3
              /\ f > n
              /\ buf'["UopsToRetireLink"]
                    = buf["UopsToRetireLink"] \o [j \in 1..n |-> rob'[f - n + j - 1].uop]
              /\ \A j \in 1..n : hist'[rob'[f - n + j - 1].uop].done # 0
              /\ (f <= Len(rob') /\ rob'[f].state = "completed") =>
                    Len(buf'["UopsToRetireLink"]) = 3
    /\ JustStepped("Retirer") =>
          /\ Len(buf["UopsToRetireLink"]) - Len(buf'["UopsToRetireLink"]) \in 0..3
          /\ Cardinality({u \in Range(buf["UopsToRetireLink"]) : hist'[u].ret = cycle}) <= 3
          /\ Cardinality({i \in 1..Len(retired') : retired'[i].cycle = cycle}) <= 3

\* C15: retire width.  In every cycle the ReorderBuffer pushes at most 3 uops
\* onto the ready-to-retire link, always the oldest completed entries in
\* program order, and the Retirer finalizes at most 3.
C15_RetireWidth == [](RetiredIsOldestPrefix) /\ [][RetiresWithinWidth]_vars

\* The ReorderBuffer has filled the ready-to-retire link with 3 uops and a
\* further completed uop, next in program order, has to wait.
C15_Witness ==
    /\ pc = 6
    /\ Len(buf["UopsToRetireLink"]) = 3
    /\ \E f \in {FirstUnretired(rob)} : f <= Len(rob) /\ rob[f].state = "completed"

\* The port that holds the uop after the step, and the units of port q that
\* were free when the ReorderBuffer reached uop u in its dispatch phase: those
\* not taken before the step nor by an older uop dispatched in the step.
PortHolding(pts, u) == CHOOSE p \in DOMAIN pts : u \in Range(pts[p])

FreeBefore(q, u) ==
    SchedModel.ProcResource[PortResIdx[q]].NumUnits
      - Cardinality({k \in 1..Len(ports'[q]) :
                       k <= Len(ports[q]) \/ Older(ports'[q][k], u)})

\* In a ReorderBuffer step every dispatched uop goes to a candidate port of its
\* resource that had a free unit and no fewer free units than any other
\* candidate port had at that moment, and a ready uop is left queued only when
\* the uops dispatched before it, all older, have filled its candidate ports.
LeastLoadedDispatch ==
    JustStepped("ReorderBuffer") =>
        \E new \in {UopsInPorts(ports') \ UopsInPorts(ports)} :
            /\ \A u \in new :
                  \E p \in {PortHolding(ports', u)} :
                  \E cand \in {CandidatePorts(UopDesc(stream, u).res)} :
                      /\ p \in cand
                      /\ hist'[u].ready # 0
                      /\ FreeBefore(p, u) > 0
                      /\ \A q \in cand : FreeBefore(p, u) >= FreeBefore(q, u)
            /\ \A i \in 1..Len(rob') :
                  (rob'[i].state = "queued" /\ hist'[rob'[i].uop].ready # 0) =>
                      \A q \in CandidatePorts(UopDesc(stream, rob'[i].uop).res) :
                          /\ FreeBefore(q, rob'[i].uop) = 0
                          /\ \A u \in new : PortHolding(ports', u) = q => Older(u, rob'[i].uop)

\* C16: least-loaded issue policy.  The ReorderBuffer sends a ready uop to the
\* candidate port with the most free units at that moment, and among ready
\* uops that compete for a port the earlier in program order goes first.
C16_LeastLoadedPolicy == [][LeastLoadedDispatch]_vars

\* The ReorderBuffer has sent a uop of the resource group to the two-unit port
\* while the single-unit port was free as well, and a ready uop has stayed
\* queued behind older uops that took its port.
C16_Witness ==
    /\ pc = 6
    /\ ports[1] = <<>>
    /\ \E k \in 1..Len(ports[2]) :
          /\ SchedModel.ProcResource[UopDesc(stream, ports[2][k]).res].SubUnits # <<>>
          /\ k = 1
    /\ \E i \in 1..Len(rob) :
          /\ rob[i].state = "queued" /\ hist[rob[i].uop].ready # 0
          /\ UopDesc(stream, rob[i].uop).res = 2
          /\ Len(ports[2]) = 2

\* A step of the execution unit of a port empties the port and takes its uops
\* in; it pushes onto the writeback link, once, exactly the uops it took in as
\* many cycles ago as their latency, and keeps the others.
UnitHoldsForLatency ==
    JustStepped("ExecutionUnit") =>
        \E p \in {stepped'[Len(stepped')].port} :
        \E taken \in {Range(ports[p])} :
        \E held \in {{x.uop : x \in inflight[p]}} :
        \E n \in {Len(buf'["ExecutedWritebackLink"]) - Len(buf["ExecutedWritebackLink"])} :
            /\ ports'[p] = <<>>
            /\ \A u \in taken : hist'[u].exec = cycle /\ hist[u].exec = 0
            /\ n >= 0
            /\ \E pushed \in {Drop(buf'["ExecutedWritebackLink"], Len(buf["ExecutedWritebackLink"]))} :
                  /\ buf'["ExecutedWritebackLink"] = buf["ExecutedWritebackLink"] \o pushed
                  /\ NoDuplicates(pushed)
                  /\ Range(pushed) = {u \in held \cup taken :
                                         hist'[u].exec + UopDesc(stream, u).lat = cycle}
                  /\ \A u \in Range(pushed) : hist[u].wb = 0 /\ hist'[u].wb = cycle
                  /\ {x.uop : x \in inflight'[p]} = (held \cup taken) \ Range(pushed)
            /\ \A u \in {x.uop : x \in inflight'[p]} :
                  /\ hist'[u].wb = 0
                  /\ hist'[u].exec + UopDesc(stream, u).lat > cycle

\* Every latency is at least one cycle; a uop is on the writeback link in the
\* cycle its unit pushed it, its latency after the unit took it, until the
\* ReorderBuffer's next step, and it is there once.
WrittenBackAtLatency ==
    /\ \A u \in DOMAIN hist :
          /\ UopDesc(stream, u).lat >= 1
          /\ hist[u].wb # 0 =>
                (hist[u].exec # 0 /\ hist[u].wb = hist[u].exec + UopDesc(stream, u).lat)
    /\ NoDuplicates(buf["ExecutedWritebackLink"])
    /\ \A u \in Range(buf["ExecutedWritebackLink"]) :
          hist[u].wb = IF pc <= 5 THEN cycle - 1 ELSE cycle

\* C17: execution latency.  A unit that takes a uop of latency L from its port
\* in cycle c pushes it onto the writeback link once, in cycle c + L and not
\* before; the port is free again from the unit's step of cycle c.
C17_ExecutionLatency == [](WrittenBackAtLatency) /\ [][UnitHoldsForLatency]_vars

\* The single-unit port holds a uop dispatched in this cycle while its unit
\* still holds a uop of latency 3 taken in an earlier cycle, and a uop of
\* latency 2 has been written back two cycles after its unit took it.
C17_Witness ==
    /\ pc = 6
    /\ Len(ports[1]) = 1
    /\ \E x \in inflight[1] :
          UopDesc(stream, x.uop).lat = 3 /\ hist[x.uop].exec < cycle /\ hist[x.uop].wb = 0
    /\ \E u \in DOMAIN hist :
          UopDesc(stream, u).lat = 2 /\ hist[u].wb = hist[u].exec + 2

-----------------------------------------------------------------------------
(* C18: the ports created by CreateHaswellSimulator *)

\* The resources that must have a port once the loop has reached index n.
PortResources(n) ==
    {r \in 1..(n - 1) : r < schedModel.NumProcResourceKinds
                        /\ schedModel.ProcResource[r].SubUnits = <<>>}

\* Exactly one port for each such resource, of NumUnits units, none for
\* resource 0 and none for a group, in the order of the resources.
OnePortPerResource ==
    /\ \A r \in PortResources(ProcResIdx) :
          Cardinality({k \in DOMAIN Ports : Ports[k].res = r}) = 1
    /\ \A k \in DOMAIN Ports :
          /\ Ports[k].res \in PortResources(ProcResIdx)
          /\ Ports[k].NumUnits = schedModel.ProcResource[Ports[k].res].NumUnits
    /\ \A k, l \in DOMAIN Ports : k < l => Ports[k].res < Ports[l].res

\* The three lists are parallel: the k-th sink is the k-th port and the k-th
\* name is the name of the resource of the k-th port.
ParallelLists ==
    /\ Len(PortSinks) = Len(Ports)
    /\ Len(PortNames) = Len(Ports)
    /\ \A k \in DOMAIN Ports :
          /\ PortSinks[k] = k
          /\ PortNames[k][2] = Ports[k].res

\* Once the units are added, each port is read by exactly one execution unit.
OneUnitPerPort ==
    /\ \A u \in DOMAIN unitPorts : unitPorts[u] \in DOMAIN Ports
    /\ wpc \in {"buffers", "built"} =>
          \A k \in DOMAIN Ports : Cardinality({u \in DOMAIN unitPorts : unitPorts[u] = k}) = 1

\* Once built, each port is registered once, under its own name.
PortsRegistered ==
    wpc = "built" =>
        /\ Len(addedPorts) = Len(Ports)
        /\ \A k \in DOMAIN Ports : addedPorts[k] = [port |-> k, name |-> PortNames[k]]

\* A uop dispatched for a resource reaches the port created for that resource.
RoutedToOwnPort ==
    \A x \in routed : x.port \in DOMAIN Ports /\ Ports[x.port].res = x.res

-----------------------------------------------------------------------------
(* C19: the mnemonic filter of the itinerary tool *)

\* The mnemonic m is in the comma-separated list: it is what stands between
\* two consecutive separators (a comma, or an end of the flag), and it is not
\* blank; the list is read as written, without trimming.
IsListed(flag, m) ==
    /\ \E i \in DOMAIN m : m[i] # " "
    /\ \E a \in 1..(Len(flag) + 1) :
          /\ a = 1 \/ flag[a - 1] = ","
          /\ a + Len(m) - 1 <= Len(flag)
          /\ a + Len(m) - 1 = Len(flag) \/ flag[a + Len(m)] = ","
          /\ \A i \in DOMAIN m : flag[a + i - 1] = m[i] /\ m[i] # ","

\* passed holds exactly the elements of field that are listed, in their order.
ExactlyTheListed(flag, field, passed) ==
    /\ \A k \in DOMAIN passed : passed[k] \in Range(field)
    /\ \A k \in DOMAIN field :
          (field[k] \in Range(passed)) <=> IsListed(flag, field[k].llvm_mnemonic)
    /\ \A k, l \in DOMAIN passed : k < l => passed[k].id < passed[l].id

\* C19: when the only-mnemonics flag is non-empty, ComputeItineraries is called
\* with exactly the instructions and exactly the itineraries whose llvm mnemonic
\* is in the comma-separated list, in their order; when the flag is empty, it
\* is called with all of them.
C19_MnemonicFilter ==
    computeArgs # <<>> =>
        IF FLAGS_exegesis_only_llvm_mnemonics # <<>>
        THEN /\ ExactlyTheListed(FLAGS_exegesis_only_llvm_mnemonics,
                                 loaded.instruction_set, computeArgs[1].instruction_set)
             /\ ExactlyTheListed(FLAGS_exegesis_only_llvm_mnemonics,
                                 loaded.itineraries, computeArgs[1].itineraries)
        ELSE computeArgs[1] = loaded

\* A list with a blank element and a name: of two instructions the named one
\* is passed, and of two itineraries with that name both are.
C19_Witness ==
    /\ computeArgs # <<>>
    /\ FLAGS_exegesis_only_llvm_mnemonics = <<",", "A">>
    /\ Len(loaded.instruction_set) = 2
    /\ loaded.instruction_set[1].llvm_mnemonic = <<>>
    /\ computeArgs[1].instruction_set = <<[id |-> 2, llvm_mnemonic |-> <<"A">>]>>
    /\ Len(computeArgs[1].itineraries) = 2

-----------------------------------------------------------------------------
(* C20: the output of the itinerary tool *)

Called(event) == \E i \in DOMAIN events : events[i] = event

TimesCalled(event) == Cardinality({i \in DOMAIN events : events[i] = event})

\* With an empty output flag the program aborts at once: nothing is called and
\* no file is written.
AbortsWithoutOutput ==
    FLAGS_exegesis_output_itineraries = <<>> =>
        /\ tpc \in {"main", "aborted"}
        /\ events = <<>>
        /\ loaded = NoData
        /\ computeArgs = <<>>
        /\ files = {}

\* With an output flag, the only write is the one of the itineraries to that
\* path, after ComputeItineraries has returned, and a run that returns has
\* made it, whatever the status.
WritesOnceAfterCompute ==
    FLAGS_exegesis_output_itineraries # <<>> =>
        /\ tpc # "aborted"
        /\ TimesCalled("WriteTextProtoOrDie") <= 1
        /\ \A i \in DOMAIN events :
              events[i] = "WriteTextProtoOrDie" =>
                  /\ \E j \in 1..(i - 1) : events[j] = "ComputeItineraries"
                  /\ status \in Statuses
        /\ files \subseteq {[path |-> FLAGS_exegesis_output_itineraries, proto |-> itineraries]}
        /\ files # {} => Called("WriteTextProtoOrDie") /\ itineraries = computeArgs[1].itineraries
        /\ tpc = "computed" => status \in Statuses /\ ~Called("WriteTextProtoOrDie")
        /\ tpc \in {"written", "returned"} =>
              /\ TimesCalled("WriteTextProtoOrDie") = 1
              /\ files = {[path |-> FLAGS_exegesis_output_itineraries, proto |-> itineraries]}

\* No step is taken between the return of ComputeItineraries and the write
\* but the write, for either status.
WriteFollowsCompute ==
    tpc = "computed" => (tpc' # tpc => Called("WriteTextProtoOrDie")')

\* C20: with an empty output flag the program aborts before pinning the core,
\* loading the data or computing anything, and writes no file; with a non-empty
\* one, the itineraries are written to that path exactly once, after
\* ComputeItineraries has returned, whatever status it returned.
C20_OutputHandling ==
    /\ [](AbortsWithoutOutput /\ WritesOnceAfterCompute)
    /\ [][WriteFollowsCompute]_vars

\* ComputeItineraries has failed on a filtered data set, and the run has
\* returned with the itineraries written.
C20_Witness ==
    /\ tpc = "returned"
    /\ status = "INTERNAL"
    /\ events = <<"SetCoreAffinity", "GetMicroArchitectureDataFromCommandLineFlags",
                  "ComputeItineraries", "WriteTextProtoOrDie">>
    /\ Len(itineraries) = 1
    /\ Len(loaded.itineraries) = 2
    /\ files = {[path |-> <<"A">>, proto |-> itineraries]}

====
